---- MODULE Spec2Model ----
(***************************************************************************)
(* GptOss20BAgent: the agent (src/src/agent.py), the three presentation    *)
(* handlers (src/src/ui.py) and the two retrieval adapters                 *)
(* (src/src/search.py, src/src/scraper.py) as a state machine.             *)
(*                                                                         *)
(* A text is a sequence of symbols.  A symbol is a one-element string that *)
(* stands for at least one character of the program's text: a single      *)
(* character ("<", "|", ">", "\n", " ", "a", "A", "#"), or a fixed literal *)
(* of the source kept whole ("We need to", "User: ", ...).                 *)
(***************************************************************************)
EXTENDS Integers, Sequences, FiniteSets, TLC

\* ------------------------------------------------------------------ texts

NL == "\n"

\* s[from..to], empty when from > to (python slicing on valid indices)
Slice(s, from, to) == [i \in 1..(to - from + 1) |-> s[from + i - 1]]

RECURSIVE Concat(_)
\* "".join(seq of texts)
Concat(ss) == IF ss = << >> THEN << >> ELSE Head(ss) \o Concat(Tail(ss))

\* python str.isspace() on one symbol
IsSpace(c) == c \in {" ", NL}

\* [A-Z] on the first character of a symbol of a model output: a capital
\* letter, or an opener of reasoning_patterns (each begins with one)
IsCapital(c) ==
    c \in {"A", "B", "We have a conversation:", "The answer should",
           "We need to", "We should", "We'll comply."}

\* ---------------------------------------------------------- clean_response

\* index of the first "|" at or after i, 0 if there is none
RECURSIVE FirstBar(_, _)
FirstBar(t, i) ==
    IF i > Len(t) THEN 0 ELSE IF t[i] = "|" THEN i ELSE FirstBar(t, i + 1)

\* r'<\|[^|]+\|>' matched at position i: the index of the closing ">", 0 if
\* the pattern does not match there
MarkerEnd(t, i) ==
    IF i + 1 <= Len(t) /\ t[i] = "<" /\ t[i + 1] = "|"
    THEN LET j == FirstBar(t, i + 2)
         IN  IF j > i + 2 /\ j + 1 <= Len(t) /\ t[j + 1] = ">" THEN j + 1 ELSE 0
    ELSE 0

RECURSIVE StripMarkersFrom(_, _)
StripMarkersFrom(t, i) ==
    IF i > Len(t) THEN << >>
    ELSE LET e == MarkerEnd(t, i)
         IN  IF e # 0 THEN StripMarkersFrom(t, e + 1)
             ELSE <<t[i]>> \o StripMarkersFrom(t, i + 1)

\* re.sub(r'<\|[^|]+\|>', '', text): leftmost matches, left to right, once
StripMarkers(t) == StripMarkersFrom(t, 1)

\* ^ under re.MULTILINE: position i (1-based) is the start of a line
LineStart(t, i) == i = 1 \/ (i - 1 <= Len(t) /\ t[i - 1] = NL)

RECURSIVE FirstLineStart(_, _)
\* first line start at or after i, 0 if there is none (i <= Len(t) + 1)
FirstLineStart(t, i) ==
    IF i > Len(t) THEN 0
    ELSE IF LineStart(t, i) THEN i ELSE FirstLineStart(t, i + 1)

RECURSIVE FirstSym(_, _, _)
\* first index at or after i holding symbol c, 0 if there is none
FirstSym(t, c, i) ==
    IF i > Len(t) THEN 0 ELSE IF t[i] = c THEN i ELSE FirstSym(t, c, i + 1)

RECURSIVE FirstBoundary(_, _)
\* (?=\n[A-Z]|\n#): first index at or after i of a newline that is followed
\* by a capital letter or by "#", 0 if there is none
FirstBoundary(t, i) ==
    IF i + 1 > Len(t) THEN 0
    ELSE IF t[i] = NL /\ (IsCapital(t[i + 1]) \/ t[i + 1] = "#") THEN i
    ELSE FirstBoundary(t, i + 1)

RECURSIVE SubBlockFrom(_, _, _)
\* re.sub(r'^.*?<opener>.*?(?=\n[A-Z]|\n#)', '', text, DOTALL | MULTILINE)
\* from position pos on: a match starts at a line start, runs lazily over
\* anything (newlines too) to the first opener and from there to the first
\* boundary, which it does not consume
SubBlockFrom(t, opener, pos) ==
    LET s == FirstLineStart(t, pos)
        k == IF s = 0 THEN 0 ELSE FirstSym(t, opener, s)
        b == IF k = 0 THEN 0 ELSE FirstBoundary(t, k + 1)
    IN  IF b = 0 THEN Slice(t, pos, Len(t))
        ELSE Slice(t, pos, s - 1) \o SubBlockFrom(t, opener, b)

SubBlock(t, opener) == SubBlockFrom(t, opener, 1)

RECURSIVE SubComplyFrom(_, _)
\* re.sub(r'^.*?We\'ll comply\..*?\n', '', text, DOTALL | MULTILINE): as
\* above, but the match ends with the first newline after the opener, which
\* it consumes
SubComplyFrom(t, pos) ==
    LET s == FirstLineStart(t, pos)
        k == IF s = 0 THEN 0 ELSE FirstSym(t, "We'll comply.", s)
        b == IF k = 0 THEN 0 ELSE FirstSym(t, NL, k + 1)
    IN  IF b = 0 THEN Slice(t, pos, Len(t))
        ELSE Slice(t, pos, s - 1) \o SubComplyFrom(t, b + 1)

SubComply(t) == SubComplyFrom(t, 1)

RECURSIVE SpaceRunEnd(_, _)
\* index of the last symbol of the whitespace run starting at i (i - 1 if
\* t[i] is no whitespace)
SpaceRunEnd(t, i) ==
    IF i <= Len(t) /\ IsSpace(t[i]) THEN SpaceRunEnd(t, i + 1) ELSE i - 1

RECURSIVE LastNLIn(_, _, _)
\* last newline of t[from..to], 0 if there is none
LastNLIn(t, from, to) ==
    IF to < from THEN 0 ELSE IF t[to] = NL THEN to ELSE LastNLIn(t, from, to - 1)

RECURSIVE SubDotsFrom(_, _)
\* re.sub(r'^\.\.\.\?\s*\n', '', text, DOTALL | MULTILINE): "...?" at a line
\* start, then the greedy whitespace run up to its last newline
SubDotsFrom(t, pos) ==
    IF pos > Len(t) THEN << >>
    ELSE LET e == IF LineStart(t, pos) /\ t[pos] = "...?"
                  THEN LastNLIn(t, pos + 1, SpaceRunEnd(t, pos + 1)) ELSE 0
         IN  IF e # 0 THEN SubDotsFrom(t, e + 1)
             ELSE <<t[pos]>> \o SubDotsFrom(t, pos + 1)

SubDots(t) == SubDotsFrom(t, 1)

RECURSIVE NLRunEnd(_, _)
\* index of the last newline of the run of newlines starting at i
NLRunEnd(t, i) == IF i <= Len(t) /\ t[i] = NL THEN NLRunEnd(t, i + 1) ELSE i - 1

RECURSIVE CollapseFrom(_, _)
\* re.sub(r'\n{3,}', '\n\n', text)
CollapseFrom(t, i) ==
    IF i > Len(t) THEN << >>
    ELSE LET e == NLRunEnd(t, i)
         IN  IF e - i + 1 >= 3 THEN <<NL, NL>> \o CollapseFrom(t, e + 1)
             ELSE <<t[i]>> \o CollapseFrom(t, i + 1)

Collapse(t) == CollapseFrom(t, 1)

RECURSIVE LStrip(_)
LStrip(t) == IF t # << >> /\ IsSpace(Head(t)) THEN LStrip(Tail(t)) ELSE t

RECURSIVE RStrip(_)
RStrip(t) ==
    IF t # << >> /\ IsSpace(t[Len(t)]) THEN RStrip(SubSeq(t, 1, Len(t) - 1)) ELSE t

\* str.strip()
Strip(t) == LStrip(RStrip(t))

\* text = f(text): the assignment that chains the steps of clean_response;
\* x is bound to its value before F is applied to it
Apply(F(_), x) == CHOOSE y \in {F(v) : v \in {x}} : TRUE

\* the reasoning_patterns loop of clean_response, in list order
StripReasoning(t) ==
    Apply(SubDots,
      Apply(SubComply,
        Apply(LAMBDA p : SubBlock(p, "We should"),
          Apply(LAMBDA p : SubBlock(p, "We need to"),
            Apply(LAMBDA p : SubBlock(p, "The answer should"),
              Apply(LAMBDA p : SubBlock(p, "We have a conversation:"), t))))))

\* AIAgent.clean_response
clean_response(text) ==
    IF text = << >> THEN text
    ELSE Apply(Strip, Apply(Collapse, Apply(StripReasoning, Apply(StripMarkers, text))))


\* ------------------------------------------------------------------ bounds

\* calls made to the program in one behaviour: invocations of a handler and
\* direct calls of chat, chat_with_context, set_mode and clear_history
MaxRuns == 2

\* chunks the generation capability emits in one stream
MaxChunks == 2

\* fragments a raw text handed to clean_response is made of
MaxPieces == 4

\* characters of the text extracted from a page
MaxText == 4

\* the largest value a length of the scraper configuration takes
MaxLength == 3

\* invocations in one behaviour of the conversation-only specification
LongRuns == 7

\* ------------------------------------------------------- program constants

\* conversation_history[-6:]
HISTORY_WINDOW == 6

\* LLM_CONFIG["n_ctx"], LLM_CONFIG["max_tokens"]
N_CTX == 2048
MAX_TOKENS == 512

\* the ceiling of a prompt: the context window minus the room for the output
Ceiling == N_CTX - MAX_TOKENS

\* the maximum number of retained turns the specification configures
MaxTurns == 12

\* config.SYSTEM_PROMPTS: one system prompt per mode
SYSTEM_PROMPTS ==
    [conversation |-> <<"You are a helpful AI assistant.">>,
     search       |-> <<"You are a search assistant.">>,
     scrape       |-> <<"You are a data extraction assistant.">>]

Modes == DOMAIN SYSTEM_PROMPTS

\* ------------------------------------------------------------------ inputs

\* what a user types in the conversation tab or passes to AIAgent.chat
UserTexts == {<<"h">>}

\* a text of more than half the ceiling: two of them exceed it
BigText == [i \in 1..((Ceiling \div 2) + 1) |-> "x"]

\* chunks of the generation capability: plain text, and a control marker
\* with a reasoning span.  None holds a stop sequence ("User:", "\n\n\n",
\* "<|end|>")
Chunks == {<<"a">>, <<"<", "|", "c", "|", ">", "We need to", NL, "A">>}

\* search queries, URLs and questions typed in the search and scrape tabs
Queries == {<< >>, <<" ">>, <<"q">>}
Urls == {<< >>, <<" ">>, <<"e.c">>}
Questions == {<< >>, <<"w">>}

\* arguments of AIAgent.set_mode
ModeArgs == Modes \cup {"bogus"}

\* ------------------------------------------------------------------- state

Handlers == {"conversation", "search", "scrape"}

\* who holds a generator of AIAgent.chat: a handler, or code calling the
\* agent directly
Callers == Handlers \cup {"direct"}

VARIABLES
    llm,                   \* AIAgent.llm: "None" or "Llama"
    conversation_history,  \* AIAgent.conversation_history
    current_mode,          \* AIAgent.current_mode
    gen,                   \* per caller: the frame of its AIAgent.chat generator
    hnd,                   \* per handler: the frame of its handler generator
    runs,                  \* calls made so far
    call                   \* a call of a method of the program on its own:
                           \* the method, its argument, its outcomes

vars == <<llm, conversation_history, current_mode, gen, hnd, runs, call>>

\* the object a call of AIAgent.chat evaluates to: the function holds a
\* yield, so every call, whatever stream is, returns a generator
GeneratorObject == <<"<generator object AIAgent.chat>">>

\* no generator.  Code fields: stream, user_message, prompt, response_text.
\* result: what the call of chat evaluated to.  out: the chunks yielded so
\* far.  value: <<v>> once the generator returned v (carried by
\* StopIteration), << >> before.  left: chunks the stream may still emit.
\* History fields (not program state): h0 the history when the call was
\* made, llm0 the value of self.llm when the body started ("unset" before),
\* raw the chunks the capability emitted, called whether the capability was
\* invoked, failed whether it raised, raised whether an exception left the
\* generator.
NoGen ==
    [pc |-> "none", stream |-> TRUE, user_message |-> << >>, prompt |-> << >>,
     response_text |-> << >>, result |-> << >>, out |-> << >>, value |-> << >>,
     left |-> 0, h0 |-> << >>, llm0 |-> "unset", raw |-> << >>,
     called |-> FALSE, failed |-> FALSE, raised |-> FALSE]

\* no handler frame.  arg, question: the inputs.  context: the formatted
\* retrieval result.  response: the accumulator.  shown: the outputs yielded
\* to the presentation layer.  value: <<v>> once the handler returned v.
\* requests: backend requests issued.
NoHnd ==
    [pc |-> "none", arg |-> << >>, question |-> << >>, context |-> << >>,
     response |-> << >>, shown |-> << >>, value |-> << >>, requests |-> 0]

\* python values: a text, None, an integer (by its digits), the pair
\* (success, value) an adapter returns, the list or dict of its data
PyStr(t) == [type |-> "str", v |-> t]
PyNone == [type |-> "NoneType", v |-> << >>]
PyInt(digits) == [type |-> "int", v |-> digits]
PyTuple(success, value) == [type |-> "tuple", v |-> [success |-> success, value |-> value]]
PyData(d) == [type |-> "data", v |-> d]

\* the outcome of a call: it returned a value or raised an exception (named
\* by value); NoOutcome before the call
Returned(x) == [state |-> "returned", value |-> x]
Raised(name) == [state |-> "raised", value |-> PyStr(<<name>>)]
NoOutcome == [state |-> "none", value |-> PyNone]

\* no call.  first: the outcome of method(arg); second: the outcome of the
\* method applied to the value first returned; requests: the requests made
\* to a backend during the call
NoCall ==
    [method |-> "none", arg |-> PyNone, first |-> NoOutcome, second |-> NoOutcome,
     requests |-> 0]

GenLive == {"created", "yNotLoaded", "yChunk", "yError"}
GenYielded == {"yNotLoaded", "yChunk", "yError"}
HndLive == {"created", "ySearching", "yScraping", "yFailed", "yProcessing", "yResp"}
HndYielded == HndLive \ {"created"}

\* no run is in flight
Idle ==
    /\ \A c \in Callers : gen[c].pc \notin GenLive
    /\ \A h \in Handlers : hnd[h].pc \notin HndLive

Init ==
    /\ llm = "None"
    /\ conversation_history = << >>
    /\ current_mode = "conversation"
    /\ gen = [c \in Callers |-> NoGen]
    /\ hnd = [h \in Handlers |-> NoHnd]
    /\ runs = 0
    /\ call = NoCall

\* ------------------------------------------------------------ AIAgent

\* a plausible slip: the agent reports ready without a model
is_ready_always(l) == TRUE

\* AIAgent.is_ready
is_ready(l) == l # "None"

\* AIAgent.load_model: the model file may be missing and Llama() may raise;
\* both leave llm as it was
LoadModel ==
    /\ \E ok \in BOOLEAN : llm' = IF ok THEN "Llama" ELSE llm
    /\ UNCHANGED <<conversation_history, current_mode, gen, hnd, runs, call>>

\* a plausible slip: the mode is assigned without the membership test
set_mode_any(cur, mode) == mode

\* AIAgent.set_mode, as a function of the current mode
set_mode(cur, mode) == IF mode \in DOMAIN SYSTEM_PROMPTS THEN mode ELSE cur

\* AIAgent.get_system_prompt
get_system_prompt(cur) == IF cur \in DOMAIN SYSTEM_PROMPTS THEN SYSTEM_PROMPTS[cur] ELSE << >>

UserTurn(text) == [role |-> "user", content |-> text]
AssistantTurn(text) == [role |-> "assistant", content |-> text]

\* a plausible slip: the whole history goes into the prompt
LastNAll(s, n) == s

\* python s[-n:] for n > 0
LastN(s, n) == IF Len(s) <= n THEN s ELSE SubSeq(s, Len(s) - n + 1, Len(s))

\* one pass of the history loop of chat
RenderTurn(msg) ==
    IF msg.role = "user" THEN <<"User: ">> \o msg.content \o <<NL>>
    ELSE <<"Assistant: ">> \o msg.content \o <<NL>>

\* the prompt chat builds: the last six turns, the user message, the open
\* assistant tag.  system_prompt is fetched and not used
BuildPrompt(system_prompt, history, user_message) ==
    LET recent == LastN(history, HISTORY_WINDOW)
    IN  Concat([i \in 1..Len(recent) |-> RenderTurn(recent[i])])
          \o <<"User: ">> \o user_message \o <<NL, "Assistant:">>

\* the size of a prompt: each symbol stands for at least one token
PromptSize(prompt) == Len(prompt)

ErrNotLoaded == <<"Error: Model not loaded. Please load the model first.">>

\* f"Error generating response: {str(e)}"
ErrGenerating == <<"Error generating response: ", "e">>

\* ----------------------------------------------------- AIAgent.chat

\* a plausible slip: the raw response is stored
StoredContentRaw(response_text) == response_text

\* what chat stores as the assistant turn: the cleaned response
StoredContent(response_text) == clean_response(response_text)

\* a plausible slip: the except clause takes the last turn off the history
HistoryOnExceptionPop(hist) == SubSeq(hist, 1, Len(hist) - 1)

\* the history after the except clause of chat: as it was when the exception
\* was raised, the user turn of line 153 included
HistoryOnException(hist) == hist

\* the except clause of chat: the error message is yielded when streaming
\* and returned otherwise
ExceptionOutcome(g, hist) ==
    IF g.stream
    THEN [g |-> [g EXCEPT !.pc = "yError", !.out = Append(@, ErrGenerating),
                          !.failed = TRUE],
          hist |-> HistoryOnException(hist)]
    ELSE [g |-> [g EXCEPT !.pc = "done", !.value = <<ErrGenerating>>,
                          !.failed = TRUE],
          hist |-> HistoryOnException(hist)]

\* one pass of the streaming loop of chat, from the capability's next event
\* to the next suspension: a chunk is added to response_text and yielded; at
\* the end of the stream the cleaned response is appended; an exception goes
\* to the except clause
StreamStep(g, hist, chunks) ==
    {[g |-> [g EXCEPT !.pc = "yChunk", !.response_text = @ \o ch,
                      !.out = Append(@, ch), !.raw = Append(@, ch),
                      !.left = @ - 1],
      hist |-> hist] : ch \in IF g.left > 0 THEN chunks ELSE {}}
    \cup {[g |-> [g EXCEPT !.pc = "done"],
           hist |-> Append(hist, AssistantTurn(StoredContent(g.response_text)))]}
    \cup {ExceptionOutcome(g, hist)}

\* the non-streaming branch of chat: the whole text at once, cleaned,
\* appended and returned
BlockingStep(g, hist, chunks) ==
    {[g |-> [g EXCEPT !.pc = "done", !.response_text = text, !.raw = <<text>>,
                      !.value = <<StoredContent(text)>>],
      hist |-> Append(hist, AssistantTurn(StoredContent(text)))] : text \in chunks}
    \cup {ExceptionOutcome(g, hist)}

\* the body of chat from its first line to its first suspension
BodyStart(g, hist, l, cur, chunks) ==
    IF ~is_ready(l)
    THEN {[g |-> [g EXCEPT !.pc = "yNotLoaded", !.out = <<ErrNotLoaded>>,
                           !.llm0 = l],
           hist |-> hist]}
    ELSE LET g1 == [g EXCEPT !.prompt = BuildPrompt(get_system_prompt(cur), hist,
                                                   g.user_message),
                             !.llm0 = l, !.called = TRUE, !.left = MaxChunks]
             h1 == Append(hist, UserTurn(g.user_message))
         IN  IF g.stream THEN StreamStep(g1, h1, chunks)
             ELSE BlockingStep(g1, h1, chunks)

\* next() on a generator of chat: the outcomes [g, hist] of running its body
\* to the next yield or to its end
Resume(g, hist, l, cur, chunks) ==
    IF g.pc = "created" THEN BodyStart(g, hist, l, cur, chunks)
    ELSE IF g.pc = "yChunk" THEN StreamStep(g, hist, chunks)
    ELSE {[g |-> [g EXCEPT !.pc = "done"], hist |-> hist]}

\* a plausible slip: the partial buffer is committed when the caller leaves
CloseOutcomeCommit(g, hist) ==
    [g |-> [g EXCEPT !.pc = "closed"],
     hist |-> IF g.pc = "yChunk"
              THEN Append(hist, AssistantTurn(StoredContent(g.response_text)))
              ELSE hist]

\* close() on a generator of chat (or its disposal): GeneratorExit is raised
\* at the yield; it is no Exception, so the except clause does not run and
\* nothing after the yield does
CloseOutcome(g, hist) == [g |-> [g EXCEPT !.pc = "closed"], hist |-> hist]

\* chat(user_message, stream): a new generator; no line of the body has run
NewGen(user_message, stream, hist) ==
    [NoGen EXCEPT !.pc = "created", !.user_message = user_message,
                  !.stream = stream, !.result = GeneratorObject, !.h0 = hist]

\* chat_with_context: f"{user_message}\n\n**Context:**\n{context}"
Enhanced(user_message, context) ==
    user_message \o <<NL, NL, "**Context:**", NL>> \o context

\* finished generators and handler frames are garbage at the next call
RetiredGen == [c \in Callers |-> IF gen[c].pc \in GenLive THEN gen[c] ELSE NoGen]
RetiredHnd == [h \in Handlers |-> IF hnd[h].pc \in HndLive THEN hnd[h] ELSE NoHnd]

\* code outside the UI calls chat(user_message, stream)
DirectChat(texts, maxruns) ==
    /\ Idle
    /\ runs < maxruns
    /\ \E msg \in texts, stream \in BOOLEAN :
         gen' = [RetiredGen EXCEPT
                   !["direct"] = NewGen(msg, stream, conversation_history)]
    /\ hnd' = RetiredHnd
    /\ runs' = runs + 1
    /\ UNCHANGED <<llm, conversation_history, current_mode, call>>

\* code outside the UI calls chat_with_context(user_message, context, stream)
DirectChatWithContext(texts, maxruns) ==
    /\ Idle
    /\ runs < maxruns
    /\ \E msg \in texts, ctx \in texts, stream \in BOOLEAN :
         gen' = [RetiredGen EXCEPT
                   !["direct"] = NewGen(Enhanced(msg, ctx), stream,
                                        conversation_history)]
    /\ hnd' = RetiredHnd
    /\ runs' = runs + 1
    /\ UNCHANGED <<llm, conversation_history, current_mode, call>>

\* the direct caller takes the next item of its generator
DirectNext(chunks) ==
    /\ gen["direct"].pc \in GenLive
    /\ \E o \in Resume(gen["direct"], conversation_history, llm, current_mode, chunks) :
         /\ gen' = [gen EXCEPT !["direct"] = o.g]
         /\ conversation_history' = o.hist
    /\ UNCHANGED <<llm, current_mode, hnd, runs, call>>

\* the direct caller abandons its generator
DirectClose ==
    /\ gen["direct"].pc \in GenLive
    /\ LET o == CloseOutcome(gen["direct"], conversation_history)
       IN  /\ gen' = [gen EXCEPT !["direct"] = o.g]
           /\ conversation_history' = o.hist
    /\ UNCHANGED <<llm, current_mode, hnd, runs, call>>

\* code outside the UI calls set_mode(mode), between runs
SetMode(maxruns) ==
    /\ Idle
    /\ runs < maxruns
    /\ \E mode \in ModeArgs : current_mode' = set_mode(current_mode, mode)
    /\ runs' = runs + 1
    /\ UNCHANGED <<llm, conversation_history, gen, hnd, call>>

\* code outside the UI calls clear_history(), between runs
ClearHistory(maxruns) ==
    /\ Idle
    /\ runs < maxruns
    /\ conversation_history' = << >>
    /\ gen' = RetiredGen
    /\ hnd' = RetiredHnd
    /\ runs' = runs + 1
    /\ UNCHANGED <<llm, current_mode, call>>

\* ------------------------------------------------------ retrieval adapters

\* "\n".join(lines)
RECURSIVE JoinNL(_)
JoinNL(lines) ==
    IF lines = << >> THEN << >>
    ELSE IF Len(lines) = 1 THEN Head(lines)
    ELSE Head(lines) \o <<NL>> \o JoinNL(Tail(lines))

Digits == <<"1", "2", "3">>

\* what ddgs.text may do: raise, return nothing, return results
SearchBackend ==
    {[raises |-> TRUE, results |-> << >>],
     [raises |-> FALSE, results |-> << >>],
     [raises |-> FALSE,
      results |-> <<[title |-> <<"t">>, href |-> <<"u">>, body |-> <<"s">>]>>]}

\* the result of an adapter: the pair (success, value) it returns, the number
\* of requests it made to its backend, and whether an exception left it
\* instead of a return
AdapterResult(success, value, requests) ==
    [success |-> success, value |-> value, requests |-> requests, raised |-> FALSE]
AdapterRaises(requests) ==
    [success |-> FALSE, value |-> <<"e">>, requests |-> requests, raised |-> TRUE]

\* a plausible slip: no check of the query before the backend is called
search_unchecked(query, b) ==
    IF b.raises THEN AdapterResult(FALSE, <<"Search error: ", "e">>, 1)
    ELSE IF b.results = << >> THEN AdapterResult(FALSE, <<"No results found">>, 1)
    ELSE AdapterResult(TRUE, b.results, 1)

\* a plausible slip: a failed request is tried once more
search_retrying(query, b) ==
    IF query = << >> \/ Strip(query) = << >>
    THEN AdapterResult(FALSE, <<"Search query cannot be empty">>, 0)
    ELSE IF b.raises THEN AdapterResult(FALSE, <<"Search error: ", "e">>, 2)
    ELSE IF b.results = << >> THEN AdapterResult(FALSE, <<"No results found">>, 1)
    ELSE AdapterResult(TRUE, b.results, 1)

\* SearchEngine.search: the one call of ddgs.text stands inside the try, and
\* "except Exception" returns the error
search(query, b) ==
    IF query = << >> \/ Strip(query) = << >>
    THEN AdapterResult(FALSE, <<"Search query cannot be empty">>, 0)
    ELSE IF b.raises THEN AdapterResult(FALSE, <<"Search error: ", "e">>, 1)
    ELSE IF b.results = << >> THEN AdapterResult(FALSE, <<"No results found">>, 1)
    ELSE AdapterResult(TRUE, b.results, 1)

\* SearchEngine.format_results
format_results(results) ==
    IF results = << >> THEN <<"No results to format">>
    ELSE JoinNL(Concat([i \in 1..Len(results) |->
           << <<"**Result ", Digits[i], ":**">>,
              <<"Title: ">> \o results[i].title,
              <<"URL: ">> \o results[i].href,
              <<"Description: ">> \o results[i].body,
              << >> >>]))

\* SearchEngine.search_and_format
search_and_format(query, b) ==
    LET r == search(query, b)
    IN  IF r.raised \/ ~r.success THEN r
        ELSE [r EXCEPT !.value = format_results(r.value)]

\* SCRAPER_CONFIG
MAX_CONTENT_LENGTH == 5000
HEAD_CHARS == 3000
TAIL_CHARS == 2000

\* what session.get and the parsing may do: time out, fail as a request,
\* fail otherwise, or give a page (its title and its text after the line
\* clean-up of _extract_content)
ScrapeBackend ==
    {[kind |-> "Timeout", title |-> << >>, text |-> << >>],
     [kind |-> "RequestException", title |-> << >>, text |-> << >>],
     [kind |-> "Exception", title |-> << >>, text |-> << >>],
     [kind |-> "page", title |-> <<"T">>, text |-> <<"p", NL, "g">>]}

\* python s[:n] and s[-n:] for n >= 0 (s[-0:] is the whole of s)
Take(s, n) == SubSeq(s, 1, IF n < Len(s) THEN n ELSE Len(s))
TakeLast(s, n) == IF n = 0 \/ n >= Len(s) THEN s ELSE SubSeq(s, Len(s) - n + 1, Len(s))

\* the separator _extract_content puts between head and tail
Separator(head_chars, tail_chars) ==
    <<NL, NL, "... [Content truncated - showing first {head_chars} and last {tail_chars} chars] ...", NL, NL>>

\* the truncation of WebScraper._extract_content
Truncate(cleaned_text, max_length, head_cfg, tail_cfg) ==
    IF Len(cleaned_text) > max_length
    THEN LET over == head_cfg + tail_cfg > max_length
             head_chars == IF over THEN (max_length * 6) \div 10 ELSE head_cfg
             tail_chars == IF over THEN max_length - head_chars ELSE tail_cfg
         IN  RStrip(Take(cleaned_text, head_chars))
               \o Separator(head_chars, tail_chars)
               \o LStrip(TakeLast(cleaned_text, tail_chars))
    ELSE cleaned_text

\* the URL WebScraper.scrape fetches
NormalizeUrl(url) ==
    IF url # << >> /\ url[1] \in {"http://", "https://"} THEN url
    ELSE <<"https://">> \o url

\* the data scrape returns for a page (no links and no metadata found)
PageData(url, b) ==
    [url |-> NormalizeUrl(url), title |-> b.title,
     content |-> Truncate(b.text, MAX_CONTENT_LENGTH, HEAD_CHARS, TAIL_CHARS)]

\* a plausible slip: no general except clause, so an exception of the parser
\* leaves scrape
scrape_unguarded(url, b) ==
    IF url = << >> \/ Strip(url) = << >>
    THEN AdapterResult(FALSE, <<"URL cannot be empty">>, 0)
    ELSE IF b.kind = "Timeout"
    THEN AdapterResult(FALSE, <<"Timeout: Page took too long to load">>, 1)
    ELSE IF b.kind = "RequestException"
    THEN AdapterResult(FALSE, <<"Request error: ", "e">>, 1)
    ELSE IF b.kind = "Exception" THEN AdapterRaises(1)
    ELSE AdapterResult(TRUE, PageData(url, b), 1)

\* WebScraper.scrape: the one call of session.get stands inside the try, whose
\* three except clauses return the error; value is the data of the page or
\* the error message
scrape(url, b) ==
    IF url = << >> \/ Strip(url) = << >>
    THEN AdapterResult(FALSE, <<"URL cannot be empty">>, 0)
    ELSE IF b.kind = "Timeout"
    THEN AdapterResult(FALSE, <<"Timeout: Page took too long to load">>, 1)
    ELSE IF b.kind = "RequestException"
    THEN AdapterResult(FALSE, <<"Request error: ", "e">>, 1)
    ELSE IF b.kind = "Exception"
    THEN AdapterResult(FALSE, <<"Scraping error: ", "e">>, 1)
    ELSE AdapterResult(TRUE, PageData(url, b), 1)

\* WebScraper.format_scraped_data
format_scraped_data(data) ==
    JoinNL(<< <<"**URL:** ">> \o data.url, <<"**Title:** ">> \o data.title, << >> >>
           \o (IF data.content # << >>
               THEN << <<"**Content:**">>, data.content, << >> >> ELSE << >>))

\* WebScraper.scrape_and_format
scrape_and_format(url, b) ==
    LET r == scrape(url, b)
    IN  IF r.raised \/ ~r.success THEN r
        ELSE [r EXCEPT !.value = format_scraped_data(r.value)]

\* --------------------------------------------------- presentation handlers
\* Each handler of create_interface holds a yield, so it is a generator: the
\* presentation layer receives what it yields, and a value it returns is
\* carried by StopIteration and shown nowhere.

ErrRestart == <<"Error: Model not loaded. Please restart the application.">>

\* the loop "for chunk in agent.chat...: response += chunk; yield response"
\* from one next() on the agent's generator to the handler's next
\* suspension or end: outcomes [h, g, hist, mode]
LoopStep(hr, g, hist, l, mode, chunks) ==
    {[h |-> IF o.g.pc \in GenYielded
            THEN [hr EXCEPT !.pc = "yResp",
                            !.response = @ \o o.g.out[Len(o.g.out)],
                            !.shown = Append(@, hr.response \o o.g.out[Len(o.g.out)])]
            ELSE [hr EXCEPT !.pc = "done"],
      g |-> o.g, hist |-> o.hist, mode |-> mode] :
        o \in Resume(g, hist, l, mode, chunks)}

\* a handler returns a message: the frame ends and nothing is yielded
Returns(hr, g, hist, mode, message) ==
    {[h |-> [hr EXCEPT !.pc = "done", !.value = <<message>>],
      g |-> g, hist |-> hist, mode |-> mode]}

\* an exception leaves a handler: the frame ends, nothing is yielded
Propagates(hr, g, hist, mode) ==
    {[h |-> [hr EXCEPT !.pc = "raised"], g |-> g, hist |-> hist, mode |-> mode]}

\* a handler yields a message and suspends at pc
Yields(hr, g, hist, mode, pc, message) ==
    {[h |-> [hr EXCEPT !.pc = pc, !.shown = Append(@, message)],
      g |-> g, hist |-> hist, mode |-> mode]}

\* conversation_chat(message, history), one next()
conversation_chat(hr, g, hist, l, cur, chunks) ==
    IF hr.pc = "created"
    THEN IF ~is_ready(l) THEN Returns(hr, g, hist, cur, ErrRestart)
         ELSE LoopStep([hr EXCEPT !.response = << >>], NewGen(hr.arg, TRUE, hist),
                       hist, l, set_mode(cur, "conversation"), chunks)
    ELSE LoopStep(hr, g, hist, l, cur, chunks)

\* search_and_process(query, history), one next()
search_and_process(hr, g, hist, l, cur, chunks) ==
    IF hr.pc = "created"
    THEN IF ~is_ready(l) THEN Returns(hr, g, hist, cur, ErrRestart)
         ELSE IF Strip(hr.arg) = << >>
         THEN Returns(hr, g, hist, cur, <<"Please enter a search query.">>)
         ELSE Yields(hr, g, hist, cur, "ySearching", <<"Searching DuckDuckGo...">>)
    ELSE IF hr.pc = "ySearching"
    THEN UNION {LET r == search_and_format(hr.arg, b)
                    h1 == [hr EXCEPT !.requests = @ + r.requests]
                IN  IF r.raised THEN Propagates(h1, g, hist, cur)
                    ELSE IF ~r.success
                    THEN Yields(h1, g, hist, cur, "yFailed",
                                <<"Search failed: ">> \o r.value)
                    ELSE Yields([h1 EXCEPT !.context = r.value], g, hist,
                                set_mode(cur, "search"), "yProcessing",
                                <<"Processing search results with AI...">>) :
                b \in SearchBackend}
    ELSE IF hr.pc = "yFailed"
    THEN {[h |-> [hr EXCEPT !.pc = "done"], g |-> g, hist |-> hist, mode |-> cur]}
    ELSE IF hr.pc = "yProcessing"
    THEN LoopStep([hr EXCEPT !.response =
                      <<"Processing search results with AI...", NL, NL>>],
                  NewGen(Enhanced(<<"Please analyze these search results for the query: '">>
                                    \o hr.arg \o <<"'">>,
                                  <<"Search Query: ">> \o hr.arg
                                    \o <<NL, NL, "Search Results:", NL>> \o hr.context),
                         TRUE, hist),
                  hist, l, cur, chunks)
    ELSE LoopStep(hr, g, hist, l, cur, chunks)

\* scrape_and_process(url, question, history), one next()
scrape_and_process(hr, g, hist, l, cur, chunks) ==
    IF hr.pc = "created"
    THEN IF ~is_ready(l) THEN Returns(hr, g, hist, cur, ErrRestart)
         ELSE IF Strip(hr.arg) = << >>
         THEN Returns(hr, g, hist, cur, <<"Please enter a URL to scrape.">>)
         ELSE Yields(hr, g, hist, cur, "yScraping",
                     <<"Scraping ">> \o hr.arg \o <<"...">>)
    ELSE IF hr.pc = "yScraping"
    THEN UNION {LET r == scrape_and_format(hr.arg, b)
                    h1 == [hr EXCEPT !.requests = @ + r.requests]
                    asked == hr.question # << >> /\ Strip(hr.question) # << >>
                IN  IF r.raised THEN Propagates(h1, g, hist, cur)
                    ELSE IF ~r.success
                    THEN Yields(h1, g, hist, cur, "yFailed",
                                <<"Scraping failed: ">> \o r.value)
                    ELSE LoopStep(
                           [h1 EXCEPT !.context = r.value,
                              !.response =
                                IF asked
                                THEN <<"Analyzing scraped content...", NL, NL, "Question: ">>
                                       \o hr.question \o <<NL, NL>>
                                ELSE <<"Analyzing scraped content...", NL, NL>>],
                           NewGen(Enhanced(
                                    IF asked THEN hr.question
                                    ELSE <<"Please summarize the key information from this web page.">>,
                                    r.value),
                                  TRUE, hist),
                           hist, l, set_mode(cur, "scrape"), chunks) :
                b \in ScrapeBackend}
    ELSE IF hr.pc = "yFailed"
    THEN {[h |-> [hr EXCEPT !.pc = "done"], g |-> g, hist |-> hist, mode |-> cur]}
    ELSE LoopStep(hr, g, hist, l, cur, chunks)

\* the presentation layer invokes a handler: a new frame, nothing has run
Invoke(h, args, questions, maxruns) ==
    /\ Idle
    /\ runs < maxruns
    /\ \E a \in args, q \in questions :
         hnd' = [RetiredHnd EXCEPT ![h] = [NoHnd EXCEPT !.pc = "created", !.arg = a,
                                                       !.question = q]]
    /\ gen' = RetiredGen
    /\ runs' = runs + 1
    /\ UNCHANGED <<llm, conversation_history, current_mode, call>>

\* the presentation layer takes the outcome o of a next() on handler h
Deliver(h, o) ==
    /\ hnd' = [hnd EXCEPT ![h] = o.h]
    /\ gen' = [gen EXCEPT ![h] = o.g]
    /\ conversation_history' = o.hist
    /\ current_mode' = o.mode
    /\ UNCHANGED <<llm, runs, call>>

ConversationInvoke(texts, maxruns) == Invoke("conversation", texts, {<< >>}, maxruns)

ConversationNext(chunks) ==
    /\ hnd["conversation"].pc \in HndLive
    /\ \E o \in conversation_chat(hnd["conversation"], gen["conversation"],
                                  conversation_history, llm, current_mode, chunks) :
         Deliver("conversation", o)

SearchInvoke(maxruns) == Invoke("search", Queries, {<< >>}, maxruns)

SearchNext(chunks) ==
    /\ hnd["search"].pc \in HndLive
    /\ \E o \in search_and_process(hnd["search"], gen["search"],
                                   conversation_history, llm, current_mode, chunks) :
         Deliver("search", o)

ScrapeInvoke(maxruns) == Invoke("scrape", Urls, Questions, maxruns)

ScrapeNext(chunks) ==
    /\ hnd["scrape"].pc \in HndLive
    /\ \E o \in scrape_and_process(hnd["scrape"], gen["scrape"],
                                   conversation_history, llm, current_mode, chunks) :
         Deliver("scrape", o)

\* the presentation layer abandons a handler that has yielded (the user
\* stops the stream): GeneratorExit ends the handler at its yield, and the
\* generator of chat it was iterating is disposed of with it
Abandon(h) ==
    /\ hnd[h].pc \in HndYielded
    /\ hnd' = [hnd EXCEPT ![h].pc = "closed"]
    /\ LET o == IF gen[h].pc \in GenLive
                THEN CloseOutcome(gen[h], conversation_history)
                ELSE [g |-> gen[h], hist |-> conversation_history]
       IN  /\ gen' = [gen EXCEPT ![h] = o.g]
           /\ conversation_history' = o.hist
    /\ UNCHANGED <<llm, current_mode, runs, call>>

\* the presentation layer invokes handler h while other handlers may be
\* running: create_interface registers the three handlers as three event
\* listeners on the one agent of get_agent, and neither ui.py nor agent.py
\* holds a lock; a listener only waits for its own previous invocation
Launch(h, args, questions, maxruns) ==
    /\ hnd[h].pc \notin HndLive
    /\ runs < maxruns
    /\ \E a \in args, q \in questions :
         hnd' = [hnd EXCEPT ![h] = [NoHnd EXCEPT !.pc = "created", !.arg = a,
                                                !.question = q]]
    /\ gen' = [gen EXCEPT ![h] = NoGen]
    /\ runs' = runs + 1
    /\ UNCHANGED <<llm, conversation_history, current_mode, call>>

\* ------------------------------------------- clean_response called directly

\* fragments of raw model output: pieces of control markers and a whole one,
\* ordinary text, a newline, a capital letter, a blank, a reasoning opener
\* and the "...?" of the last reasoning pattern
Fragments ==
    {<<"<", "|">>, <<"|", ">">>, <<"<", "|", "a", "|", ">">>, <<"a">>, <<NL>>,
     <<"A">>, <<" ">>, <<"We need to">>, <<"...?">>}

RECURSIVE TextsOf(_)
\* the texts made of at most n fragments
TextsOf(n) ==
    IF n = 0 THEN {<< >>}
    ELSE LET shorter == TextsOf(n - 1)
         IN  shorter \cup {t \o f : t \in shorter, f \in Fragments}

RawTexts == {PyStr(t) : t \in TextsOf(MaxPieces)}

\* values that are no text
NonTexts == {PyNone, PyInt(<<"0">>), PyInt(<<"5">>)}

\* python "not x"
Falsy(x) ==
    \/ x.type = "NoneType"
    \/ x.type = "str" /\ x.v = << >>
    \/ x.type = "int" /\ x.v = <<"0">>

\* AIAgent.clean_response on any python value: a falsy value is returned as
\* it is by "if not text: return text"; on any other value that is no text
\* the first re.sub raises TypeError
clean_response_of(x) ==
    IF Falsy(x) THEN Returned(x)
    ELSE IF x.type # "str" THEN Raised("TypeError")
    ELSE Returned(PyStr(clean_response(x.v)))

\* agent.clean_response(x)
CallCleanResponse(values) ==
    /\ call.method = "none"
    /\ \E x \in values :
         call' = [NoCall EXCEPT !.method = "clean_response", !.arg = x,
                                !.first = clean_response_of(x)]
    /\ UNCHANGED <<llm, conversation_history, current_mode, gen, hnd, runs>>

\* agent.clean_response(agent.clean_response(x)): the second application
CallCleanResponseAgain ==
    /\ call.method = "clean_response"
    /\ call.first.state = "returned"
    /\ call.second.state = "none"
    /\ call' = [call EXCEPT !.second = clean_response_of(call.first.value)]
    /\ UNCHANGED <<llm, conversation_history, current_mode, gen, hnd, runs>>

\* ------------------------------------------------ adapters called directly

\* the outcome of a call of an adapter with result r: the pair of success and
\* the data (a list of results, a dict of page data) or the error message
AdapterOutcome(r) ==
    IF r.raised THEN Raised("Exception")
    ELSE Returned(PyTuple(r.success, IF r.success THEN PyData(r.value)
                                     ELSE PyStr(r.value)))

\* search_engine.search(query)
CallSearch(queries) ==
    /\ call.method = "none"
    /\ \E q \in queries, b \in SearchBackend :
         LET r == search(q, b)
         IN  call' = [NoCall EXCEPT !.method = "search", !.arg = PyStr(q),
                                    !.first = AdapterOutcome(r),
                                    !.requests = r.requests]
    /\ UNCHANGED <<llm, conversation_history, current_mode, gen, hnd, runs>>

\* web_scraper.scrape(url)
CallScrape(urls) ==
    /\ call.method = "none"
    /\ \E u \in urls, b \in ScrapeBackend :
         LET r == scrape(u, b)
         IN  call' = [NoCall EXCEPT !.method = "scrape", !.arg = PyStr(u),
                                    !.first = AdapterOutcome(r),
                                    !.requests = r.requests]
    /\ UNCHANGED <<llm, conversation_history, current_mode, gen, hnd, runs>>

\* URLs handed to scrape: with and without a scheme, with and without
\* whitespace around them
UrlInputs ==
    {<< >>, <<" ">>, <<"e.c">>, <<"http://", "e.c">>, <<"https://", "e.c">>,
     <<" ", "e.c">>, <<"e.c", " ">>, <<" ", "https://", "e.c">>}

RECURSIVE SeqsOf(_, _)
\* the sequences of at most n elements of S
SeqsOf(S, n) ==
    IF n = 0 THEN {<< >>}
    ELSE LET shorter == SeqsOf(S, n - 1)
         IN  shorter \cup {Append(t, c) : t \in shorter, c \in S}

\* the texts "\n".join(lines) can be, its lines being stripped and not
\* empty: no whitespace at either end, no whitespace next to a newline
CleanedTexts ==
    {t \in SeqsOf({"p", " ", NL}, MaxText) :
        /\ t # << >> => ~IsSpace(t[1]) /\ ~IsSpace(t[Len(t)])
        /\ \A i \in 1..(Len(t) - 1) :
               (t[i] = NL \/ t[i + 1] = NL) => ~(IsSpace(t[i]) /\ IsSpace(t[i + 1]))}

\* the scraper configurations: max_content_length > 0, head_chars >= 0,
\* tail_chars >= 0
ScraperConfigs ==
    [max_content_length : 1..MaxLength, head_chars : 0..MaxLength,
     tail_chars : 0..MaxLength]

\* web_scraper._extract_content(soup) under configuration cfg, on a page whose
\* text after the clean-up of the lines is t
CallExtractContent(texts, configs) ==
    /\ call.method = "none"
    /\ \E t \in texts, cfg \in configs :
         call' = [NoCall EXCEPT
                    !.method = "_extract_content",
                    !.arg = [type |-> "soup", v |-> [cleaned_text |-> t, config |-> cfg]],
                    !.first = Returned(PyStr(Truncate(t, cfg.max_content_length,
                                                      cfg.head_chars, cfg.tail_chars)))]
    /\ UNCHANGED <<llm, conversation_history, current_mode, gen, hnd, runs>>

\* agent.set_mode(mode), called on its own at any moment: between runs or
\* while a handler is suspended at a yield
CallSetMode(modes) ==
    /\ call.method = "none"
    /\ \E mode \in modes :
         /\ current_mode' = set_mode(current_mode, mode)
         /\ call' = [NoCall EXCEPT !.method = "set_mode", !.arg = PyStr(<<mode>>),
                                   !.first = Returned(PyNone)]
    /\ UNCHANGED <<llm, conversation_history, gen, hnd, runs>>

\* ---------------------------------------------------------- specifications

\* the program with its runs one at a time
Next ==
    \/ LoadModel
    \/ SetMode(MaxRuns)
    \/ ClearHistory(MaxRuns)
    \/ DirectChat(UserTexts, MaxRuns)
    \/ DirectChatWithContext({<<"h">>}, MaxRuns)
    \/ DirectNext(Chunks)
    \/ DirectClose
    \/ ConversationInvoke(UserTexts, MaxRuns)
    \/ ConversationNext(Chunks)
    \/ SearchInvoke(MaxRuns)
    \/ SearchNext(Chunks)
    \/ ScrapeInvoke(MaxRuns)
    \/ ScrapeNext(Chunks)
    \/ \E h \in Handlers : Abandon(h)

Spec == Init /\ [][Next]_vars

\* the conversation tab alone, used for many exchanges in a row
NextHistory ==
    \/ LoadModel
    \/ ConversationInvoke(UserTexts, LongRuns)
    \/ ConversationNext({<<"a">>})

SpecHistory == Init /\ [][NextHistory]_vars

\* the conversation tab alone, with long messages
NextBudget ==
    \/ LoadModel
    \/ ConversationInvoke({<<"h">>, BigText}, MaxRuns)
    \/ ConversationNext({<<"a">>})
    \/ Abandon("conversation")

SpecBudget == Init /\ [][NextBudget]_vars

\* the three tabs of an interface whose model was never loaded
NextUnloaded ==
    \/ ConversationInvoke(UserTexts, LongRuns)
    \/ ConversationNext(Chunks)
    \/ SearchInvoke(LongRuns)
    \/ SearchNext(Chunks)
    \/ ScrapeInvoke(LongRuns)
    \/ ScrapeNext(Chunks)

SpecUnloaded == Init /\ [][NextUnloaded]_vars

\* the three tabs used at the same time
NextConcurrent ==
    \/ LoadModel
    \/ Launch("conversation", UserTexts, {<< >>}, MaxRuns)
    \/ ConversationNext({<<"a">>})
    \/ Launch("search", {<<"q">>}, {<< >>}, MaxRuns)
    \/ SearchNext({<<"a">>})
    \/ Launch("scrape", {<<"e.c">>}, {<< >>}, MaxRuns)
    \/ ScrapeNext({<<"a">>})
    \/ \E h \in Handlers : Abandon(h)

SpecConcurrent == Init /\ [][NextConcurrent]_vars

\* clean_response on its own, applied once and twice to any value
NextSanitizer ==
    \/ CallCleanResponse(RawTexts \cup NonTexts)
    \/ CallCleanResponseAgain

SpecSanitizer == Init /\ [][NextSanitizer]_vars

\* the search and scrape tabs, and the two adapters called on their own
NextRetrieval ==
    \/ LoadModel
    \/ SearchInvoke(MaxRuns)
    \/ SearchNext({<<"a">>})
    \/ ScrapeInvoke(MaxRuns)
    \/ ScrapeNext({<<"a">>})
    \/ CallSearch(Queries)
    \/ CallScrape(Urls)

SpecRetrieval == Init /\ [][NextRetrieval]_vars

\* the scraper on its own: scrape on any URL, _extract_content on any page
\* and configuration
NextScraper ==
    \/ CallScrape(UrlInputs)
    \/ CallExtractContent(CleanedTexts, ScraperConfigs)

SpecScraper == Init /\ [][NextScraper]_vars

\* runs of chat whose caller iterates the generator to its end: the for loop
\* of the caller takes the next item as long as there is one, and the stream
\* of the capability ends after at most MaxChunks chunks
NextConsuming ==
    \/ LoadModel
    \/ DirectChat(UserTexts, MaxRuns)
    \/ DirectNext(Chunks)

SpecConsuming == Init /\ [][NextConsuming]_vars /\ WF_vars(DirectNext(Chunks))

\* the conversation and search tabs, and set_mode called on its own with any
\* value
NextModes ==
    \/ LoadModel
    \/ ConversationInvoke(UserTexts, MaxRuns)
    \/ ConversationNext({<<"a">>})
    \/ SearchInvoke(MaxRuns)
    \/ SearchNext({<<"a">>})
    \/ CallSetMode(ModeArgs)

SpecModes == Init /\ [][NextModes]_vars

\* ------------------------------------------------------------------ claims

\* the turns added to the history since h0, << >> if h0 is no prefix of it
Since(h0) ==
    IF Len(h0) <= Len(conversation_history)
       /\ SubSeq(conversation_history, 1, Len(h0)) = h0
    THEN SubSeq(conversation_history, Len(h0) + 1, Len(conversation_history))
    ELSE << >>

StartsWith(h0) ==
    /\ Len(h0) <= Len(conversation_history)
    /\ SubSeq(conversation_history, 1, Len(h0)) = h0

\* the sanitizer removes material from t: a control marker or a reasoning span
Leaks(t) == StripReasoning(StripMarkers(t)) # t

\* how often chunk ch occurs in the stream out
Occurrences(out, ch) == Cardinality({i \in 1..Len(out) : out[i] = ch})

\* C1: when the generation capability fails during a run, the history after
\* the run equals the history H before it.
C1_FailedRunLeavesHistory ==
    \A c \in Callers :
        gen[c].failed /\ gen[c].pc \in {"yError", "done"}
            => conversation_history = gen[c].h0

\* C2: once the caller has abandoned a streaming run, no further chunk is
\* relayed, to the caller of chat or to the presentation layer, and the
\* history gains no assistant turn: neither at the step that abandons nor
\* while the abandoned generator stands.
C2_AbandonedRunNotCommitted ==
    /\ [](\A c \in Callers :
            gen[c].pc = "closed" =>
                /\ StartsWith(gen[c].h0)
                /\ \A i \in 1..Len(Since(gen[c].h0)) :
                       Since(gen[c].h0)[i].role # "assistant")
    /\ [][\A c \in Callers :
            gen'[c].pc = "closed" =>
                /\ gen'[c].out = gen[c].out
                /\ conversation_history' = conversation_history
                /\ c \in Handlers => hnd'[c].shown = hnd[c].shown]_vars

\* C2 witness: a stream abandoned after two chunks, on a history that already
\* holds turns
C2_Witness ==
    \E c \in Handlers :
        /\ gen[c].pc = "closed"
        /\ hnd[c].pc = "closed"
        /\ Len(gen[c].raw) = 2
        /\ gen[c].h0 # << >>

\* C3: the history never holds more than the configured maximum of turns.
C3_HistoryBounded == Len(conversation_history) <= MaxTurns

\* C4: the prompt handed to the generation capability never exceeds the
\* ceiling when dropping the history would make it fit.
C4_PromptWithinCeiling ==
    \A c \in Callers :
        /\ gen[c].called
        /\ gen[c].h0 # << >>
        /\ PromptSize(BuildPrompt(<< >>, << >>, gen[c].user_message)) <= Ceiling
        => PromptSize(gen[c].prompt) <= Ceiling

\* C5: no text relayed during a streaming run, by chat to its caller or by a
\* handler to the presentation layer, holds material the sanitizer removes.
C5_RelayedTextClean ==
    /\ \A c \in Callers : \A i \in 1..Len(gen[c].out) : ~Leaks(gen[c].out[i])
    /\ \A h \in Handlers : \A i \in 1..Len(hnd[h].shown) : ~Leaks(hnd[h].shown[i])

\* C6: when a run completes, the history is the history before the run, then
\* the user turn, then exactly one assistant turn whose content is
\* clean_response of the concatenation of the chunks the capability emitted,
\* in emission order.
C6_CommitIsCleanedConcatenation ==
    \A c \in Callers :
        gen[c].pc = "done" /\ gen[c].called /\ ~gen[c].failed
            => conversation_history =
                 gen[c].h0 \o <<UserTurn(gen[c].user_message),
                                AssistantTurn(clean_response(Concat(gen[c].raw)))>>

\* C6 witness: a completed streaming run of two chunks whose raw text differs
\* from the cleaned text, on a history that already holds turns
C6_Witness ==
    \E c \in Callers :
        /\ gen[c].pc = "done" /\ gen[c].called /\ ~gen[c].failed /\ gen[c].stream
        /\ Len(gen[c].raw) = 2
        /\ clean_response(Concat(gen[c].raw)) # Concat(gen[c].raw)
        /\ gen[c].h0 # << >>

\* C7: an exception of the generation capability never leaves the run; it is
\* surfaced as exactly one error chunk, the last chunk of the stream.
C7_ErrorIsLastChunk ==
    \A c \in Callers :
        gen[c].failed /\ gen[c].pc \in {"yError", "done"} =>
            /\ ~gen[c].raised
            /\ gen[c].out # << >>
            /\ gen[c].out[Len(gen[c].out)] = ErrGenerating
            /\ Occurrences(gen[c].out, ErrGenerating) = 1

\* C7 for the streaming runs alone, where it holds
C7_StreamingErrorIsLastChunk ==
    \A c \in Callers :
        gen[c].stream /\ gen[c].failed /\ gen[c].pc \in {"yError", "done"} =>
            /\ ~gen[c].raised
            /\ gen[c].out = gen[c].raw \o <<ErrGenerating>>

\* C8: a run that finds the model not loaded yields exactly one error chunk,
\* builds no prompt, does not invoke the generation capability and leaves the
\* history as it was.
C8_NotLoadedShortCircuits ==
    \A c \in Callers :
        gen[c].llm0 = "None" =>
            /\ gen[c].pc \in {"yNotLoaded", "done", "closed"}
            /\ gen[c].out = <<ErrNotLoaded>>
            /\ gen[c].prompt = << >>
            /\ ~gen[c].called
            /\ conversation_history = gen[c].h0

\* C8 witness: a run on an agent without a model, taken to its end
C8_Witness ==
    \E c \in Callers : gen[c].llm0 = "None" /\ gen[c].pc = "done"

\* C9: a non-streaming run delivers to its caller a single result: the
\* sanitized full text on success, the error string on failure.  The caller
\* has it either as the value of the call or as the only item it yields.
C9_BlockingRunDeliversResult ==
    \A c \in Callers :
        gen[c].pc = "done" /\ ~gen[c].stream /\ gen[c].called =>
            LET expected == IF gen[c].failed THEN ErrGenerating
                            ELSE clean_response(Concat(gen[c].raw))
            IN  gen[c].result = expected \/ gen[c].out = <<expected>>

\* C10: every invocation of a presentation handler has delivered at least one
\* output to the presentation layer when it ends.
C10_HandlerAlwaysDelivers ==
    \A h \in Handlers : hnd[h].pc = "done" => Len(hnd[h].shown) >= 1

\* the generation capability is at work for caller c: its stream was opened
\* and has not ended.  Such a run has appended its user turn to the history
\* and will append its assistant turn
InFlight(c) == gen[c].called /\ gen[c].pc = "yChunk"

\* C11: whatever the interleaving of the three handlers on the shared agent,
\* at most one generation call is in flight on the conversation history at a
\* time, so that no two runs that overlap both mutate the history.
C11_OneGenerationInFlight ==
    Cardinality({c \in Callers : InFlight(c)}) <= 1

\* history a is a prefix of history b
PrefixOf(a, b) == Len(a) <= Len(b) /\ SubSeq(b, 1, Len(a)) = a

\* C12: every step other than clear_history leaves the stored turns present,
\* unmodified and in order (the old history is a prefix of the new one); only
\* clear_history empties the history.
C12_HistoryAppendOnly ==
    [][\/ ClearHistory(MaxRuns)
       \/ PrefixOf(conversation_history, conversation_history')]_vars

\* C12 witness: a run suspended in its stream that has appended its user turn
\* to a history that already held turns
C12_Witness ==
    \E c \in Callers :
        /\ gen[c].pc = "yChunk"
        /\ gen[c].h0 # << >>
        /\ conversation_history = Append(gen[c].h0, UserTurn(gen[c].user_message))

\* the turns of history h, each tagged by its role, then the user turn with
\* text m, then the open assistant tag
TurnsThenOpenTag(h, m) ==
    Concat([i \in 1..Len(h) |-> RenderTurn(h[i])])
      \o <<"User: ">> \o m \o <<NL, "Assistant:">>

\* C13: the prompt handed to the generation capability is a system block that
\* carries the system prompt of the current mode, then the history turns
\* tagged by role, then the current user turn, then the open assistant tag
\* and nothing after it.  (While a run is in flight the mode is the one its
\* prompt was built in.)
C13_PromptLayout ==
    \A c \in Callers :
        gen[c].called /\ gen[c].pc \in GenLive =>
            LET tail == TurnsThenOpenTag(gen[c].h0, gen[c].user_message)
                sys == get_system_prompt(current_mode)
                n == Len(gen[c].prompt) - Len(tail)
            IN  /\ n >= Len(sys)
                /\ SubSeq(gen[c].prompt, n + 1, Len(gen[c].prompt)) = tail
                /\ \E k \in 1..(n - Len(sys) + 1) :
                       SubSeq(gen[c].prompt, k, k + Len(sys) - 1) = sys

\* C14: clean_response is idempotent: applied to its own output for a raw
\* text, it returns that output.
C14_Idempotent ==
    call.method = "clean_response" /\ call.arg.type = "str"
        /\ call.second.state # "none"
        => call.second = call.first

\* text t holds a control marker <|...|>
HasMarker(t) == \E i \in 1..Len(t) : MarkerEnd(t, i) # 0

\* C15: for every input text, the output of clean_response holds no control
\* marker <|...|>.
C15_NoMarkerInOutput ==
    call.method = "clean_response" /\ call.arg.type = "str"
        /\ call.first.state = "returned"
        => ~HasMarker(call.first.value.v)

\* text t holds symbol c
Holds(t, c) == \E i \in 1..Len(t) : t[i] = c

\* C16: a reasoning pattern removes text only from the point where its opener
\* matches through the next paragraph boundary: the text before the opener and
\* the text from the boundary on are kept.  Stated for the opener "We need to"
\* on texts that hold it once, hold nothing else the sanitizer removes and no
\* blank line, and have a boundary after the opener: the output is the text
\* without the span from the opener to the boundary, collapsed and stripped.
C16_RemovalIsLocal ==
    call.method = "clean_response" /\ call.arg.type = "str"
        /\ call.first.state = "returned"
        => LET t == call.arg.v
               ks == {i \in 1..Len(t) : t[i] = "We need to"}
               k == CHOOSE i \in ks : TRUE
               b == FirstBoundary(t, k + 1)
           IN  /\ Cardinality(ks) = 1
               /\ ~Holds(t, "|") /\ ~Holds(t, "...?")
               /\ \A i \in 1..(Len(t) - 1) : ~(t[i] = NL /\ t[i + 1] = NL)
               /\ b # 0
               => call.first.value.v =
                    Strip(Collapse(SubSeq(t, 1, k - 1) \o SubSeq(t, b, Len(t))))

\* C17: clean_response never raises: for every input it returns a text, and
\* for an input that is no text it returns the empty text.
C17_NeverRaises ==
    call.method = "clean_response" =>
        /\ call.first.state = "returned"
        /\ call.first.value.type = "str"
        /\ call.arg.type # "str" => call.first.value = PyStr(<< >>)

\* an empty or whitespace-only text
Blank(t) == t = << >> \/ Strip(t) = << >>

\* the messages of the failures of the two adapters
FailureMessages ==
    {<<"Search query cannot be empty">>, <<"No results found">>,
     <<"Search error: ", "e">>, <<"URL cannot be empty">>,
     <<"Timeout: Page took too long to load">>, <<"Request error: ", "e">>,
     <<"Scraping error: ", "e">>}

\* the last output handler h delivered, << >> if it delivered none
LastShown(h) ==
    IF hnd[h].shown = << >> THEN << >> ELSE hnd[h].shown[Len(hnd[h].shown)]

\* C18: for an empty or whitespace-only query, search returns the failure
\* "Search query cannot be empty" without a call of its backend; a session of
\* the search tab on such a query makes no backend request, never creates a
\* run of the generation capability and leaves the history as it is.
C18_BlankQueryShortCircuits ==
    /\ [](/\ call.method = "search" /\ Blank(call.arg.v) =>
               /\ call.first = Returned(PyTuple(FALSE, PyStr(<<"Search query cannot be empty">>)))
               /\ call.requests = 0
          /\ hnd["search"].pc # "none" /\ Blank(hnd["search"].arg) =>
               /\ hnd["search"].requests = 0
               /\ gen["search"] = NoGen)
    /\ [][/\ hnd'["search"].pc # "none"
           /\ Blank(hnd'["search"].arg)
           /\ hnd'["search"] # hnd["search"]
           => conversation_history' = conversation_history]_vars

\* C18 witness: the search tab has ended on a blank query with turns in the
\* history, and search was called on a blank query
C18_Witness ==
    /\ call.method = "search" /\ call.arg = PyStr(<<" ">>)
    /\ hnd["search"].pc = "done" /\ hnd["search"].arg = <<" ">>
    /\ conversation_history # << >>

\* handler h has received a failure from its adapter
AdapterFailed(h) ==
    \/ hnd[h].pc = "yFailed"
    \/ hnd[h].pc = "done" /\ hnd[h].requests > 0 /\ hnd[h].context = << >>

\* C19: an adapter never raises: every failure is returned as (False,
\* message).  A handler whose adapter failed delivers the message in place of
\* content and ends, without a run of the generation capability and without
\* a change of the history.
C19_AdapterFailureReported ==
    /\ [](/\ call.method \in {"search", "scrape"} =>
               /\ call.first.state = "returned"
               /\ ~call.first.value.v.success =>
                      /\ call.first.value.v.value.type = "str"
                      /\ call.first.value.v.value.v \in FailureMessages
          /\ \A h \in {"search", "scrape"} :
                 /\ hnd[h].pc # "raised"
                 /\ AdapterFailed(h) =>
                      /\ \E m \in FailureMessages :
                             LastShown(h) \in {<<"Search failed: ">> \o m,
                                               <<"Scraping failed: ">> \o m}
                      /\ gen[h] = NoGen)
    /\ [][\A h \in {"search", "scrape"} :
             /\ hnd[h].pc = "yFailed" /\ hnd'[h] # hnd[h] => hnd'[h].pc = "done"
             /\ (hnd[h].pc = "yFailed" \/ hnd'[h].pc = "yFailed") /\ hnd'[h] # hnd[h]
                  => conversation_history' = conversation_history]_vars

\* C19 witness: the scrape tab has ended on a timeout with turns in the
\* history, and scrape was called on its own and timed out
C19_Witness ==
    /\ hnd["scrape"].pc = "done"
    /\ LastShown("scrape") = <<"Scraping failed: ", "Timeout: Page took too long to load">>
    /\ conversation_history # << >>
    /\ call.method = "scrape"
    /\ call.first = Returned(PyTuple(FALSE, PyStr(<<"Timeout: Page took too long to load">>)))

\* C20: an invocation of search or scrape, on its own or from a handler,
\* makes at most one request to its backend, after an error too.
C20_AtMostOneRequest ==
    /\ call.method \in {"search", "scrape"} => call.requests <= 1
    /\ \A h \in {"search", "scrape"} : hnd[h].requests <= 1

\* C20 witness: search called on its own has failed on an exception of its
\* backend after one request, and the search tab has ended the same way
C20_Witness ==
    /\ call.method = "search"
    /\ call.first = Returned(PyTuple(FALSE, PyStr(<<"Search error: ", "e">>)))
    /\ call.requests = 1
    /\ hnd["search"].pc = "done"
    /\ LastShown("search") = <<"Search failed: ", "Search error: ", "e">>
    /\ hnd["search"].requests = 1

Schemes == {"http://", "https://"}

\* C21: for every non-empty URL, the URL scrape fetches begins with a scheme:
\* the URL itself if it has one, "https://" followed by the URL if it has
\* none; surrounding whitespace is no part of the URL, and the fetched URL
\* holds none.
C21_FetchedUrlWellFormed ==
    call.method = "scrape" /\ call.first.state = "returned"
        /\ call.first.value.v.success
        => LET u == Strip(call.arg.v)
               fetched == call.first.value.v.value.v.url
           IN  /\ fetched[1] \in Schemes
               /\ fetched = IF u[1] \in Schemes THEN u ELSE <<"https://">> \o u
               /\ \A i \in 1..Len(fetched) : ~IsSpace(fetched[i])

\* the last n characters of text t
LastChars(t, n) == SubSeq(t, Len(t) - n + 1, Len(t))

\* C22: for every extracted text longer than max_content_length, the content
\* is exactly the first head_chars characters of the text, then the separator,
\* then the last tail_chars characters of the text.  Stated for the
\* configurations that keep a head and a tail within the maximum, as
\* SCRAPER_CONFIG does.
C22_HeadSeparatorTail ==
    call.method = "_extract_content" =>
        LET t == call.arg.v.cleaned_text
            cfg == call.arg.v.config
        IN  /\ Len(t) > cfg.max_content_length
            /\ cfg.head_chars >= 1 /\ cfg.tail_chars >= 1
            /\ cfg.head_chars + cfg.tail_chars <= cfg.max_content_length
            => call.first.value.v =
                 SubSeq(t, 1, cfg.head_chars)
                   \o Separator(cfg.head_chars, cfg.tail_chars)
                   \o LastChars(t, cfg.tail_chars)

\* C23: for every page and every configuration, the content _extract_content
\* returns is at most max_content_length characters long.
C23_ContentWithinMaximum ==
    call.method = "_extract_content" =>
        Len(call.first.value.v) <= call.arg.v.config.max_content_length

\* the run of generator g ended COMMITTED: the history is the history before
\* the run, the user turn and the assistant turn
Committed(g) ==
    /\ ~g.failed
    /\ conversation_history =
         g.h0 \o <<UserTurn(g.user_message),
                   AssistantTurn(StoredContent(g.response_text))>>

\* the run of generator g ended FAILED: the error was surfaced, as the last
\* chunk or as the result, and the history is the history before the run
FailedAsBefore(g) ==
    /\ g.failed
    /\ \/ g.out # << >> /\ g.out[Len(g.out)] = ErrGenerating
       \/ g.value = <<ErrGenerating>>
    /\ conversation_history = g.h0

\* C24: every run started on a loaded model, whose stream is finite and whose
\* caller keeps consuming, eventually ends COMMITTED or FAILED with the
\* history as before the run, and the session is then ready for the next run.
C24_RunEndsCommittedOrFailed ==
    \A n \in 1..MaxRuns :
        (runs = n /\ gen["direct"].pc = "created" /\ is_ready(llm))
            ~> /\ runs = n
               /\ gen["direct"].pc = "done"
               /\ Committed(gen["direct"]) \/ FailedAsBefore(gen["direct"])
               /\ Idle /\ is_ready(llm)

\* history h is a sequence of user/assistant pairs
PairsOnly(h) ==
    /\ Len(h) % 2 = 0
    /\ \A i \in 1..Len(h) :
           h[i].role = IF i % 2 = 1 THEN "user" ELSE "assistant"

\* C25: with the runs of one agent executed one at a time (successful,
\* failed or abandoned), whenever no run is in flight the history is a
\* sequence of user/assistant pairs: no user turn lacks its assistant turn.
C25_IdleHistoryHoldsPairs == Idle => PairsOnly(conversation_history)

\* C26: for every run, the history part of the prompt is exactly the last
\* min(6, n) turns of the history as it was before the run (n its length), in
\* conversation order, and the current user text follows verbatim and exactly
\* once, as the final user turn before the open assistant tag.
C26_PromptHoldsRecentTurnsAndUserText ==
    \A c \in Callers :
        gen[c].called =>
            LET h == gen[c].h0
                n == Len(h)
                k == IF n < 6 THEN n ELSE 6
                past == Concat([i \in 1..k |-> RenderTurn(h[n - k + i])])
                p == gen[c].prompt
            IN  /\ Len(p) >= Len(past)
                /\ SubSeq(p, 1, Len(past)) = past
                /\ SubSeq(p, Len(past) + 1, Len(p))
                     = <<"User: ">> \o gen[c].user_message \o <<NL, "Assistant:">>

\* C26 witness: a run whose prompt was built on a history of more than six
\* turns, the last six of which are not the first six
C26_Witness ==
    \E c \in Callers :
        /\ gen[c].called
        /\ Len(gen[c].h0) > 6
        /\ SubSeq(gen[c].h0, Len(gen[c].h0) - 5, Len(gen[c].h0)) # SubSeq(gen[c].h0, 1, 6)
        /\ gen[c].prompt # << >>

\* C27: set_mode changes nothing but the current mode: a call leaves the
\* history (and the model and the runs in progress) as they were, a call with
\* one of the three modes makes it the current mode, a call with any other
\* value leaves the mode unchanged, and the current mode is one of the three
\* in every reachable state.
C27_SetModeChangesOnlyMode ==
    /\ [](current_mode \in {"conversation", "search", "scrape"})
    /\ [][call.method = "none" /\ call'.method = "set_mode" =>
            /\ conversation_history' = conversation_history
            /\ llm' = llm /\ gen' = gen /\ hnd' = hnd
            /\ current_mode' =
                 IF call'.arg.v[1] \in {"conversation", "search", "scrape"}
                 THEN call'.arg.v[1] ELSE current_mode]_vars

\* C27 witness: set_mode was called with a value that is no mode, on an agent
\* whose history holds turns and whose mode is no longer the initial one
C27_Witness ==
    /\ call.method = "set_mode"
    /\ call.arg.v[1] \notin {"conversation", "search", "scrape"}
    /\ conversation_history # << >>
    /\ current_mode = "search"

====
